---- MODULE Spec2Model ----
(***************************************************************************)
(* State-machine model of the task orchestration of vrc_localization_      *)
(* checker: base.Task / base.Base (src/base.py) and the sync pipeline      *)
(* SyncTranslations -> SyncFolderTask -> SyncLangTask                      *)
(* (src/sync_translations.py), running on one asyncio event loop.          *)
(* The analysis pipeline (src/analyze_translations.py) is modelled as the   *)
(* same async_main with its own sub_main.                                  *)
(*                                                                         *)
(* One step of the model is one run of a coroutine between two of its      *)
(* suspension points (await), which the single-threaded loop executes      *)
(* without interruption.  The loop's choice of the next ready coroutine,   *)
(* the completion order of I/O and the delivery of signals are             *)
(* nondeterministic.                                                       *)
(***************************************************************************)
EXTENDS Naturals, Sequences, FiniteSets

\* ------------------------------------------------------------------ bounds
NFolders == 2      \* keys.txt files found by find_keys
NLangs == 2        \* language files in the first folder (the others hold none)
NRows == 2         \* keys per folder == rows a language task inserts
MaxCap == 2        \* gate capacities range over 1..MaxCap (the code fixes 8)
MaxStarts == 2     \* start() calls on one Task object followed by the model
MaxWaits == 3      \* wait() calls on one Task object followed by the model
MaxShutdowns == 2  \* Base.shutdown calls (signals delivered) followed by the model
NGateTasks == 3    \* SyncLangTasks started at once when the class gate is studied alone
NPairs == 3        \* string pairs lacking a suggestion when the analysis starts
PickLimit == 2     \* rows _pick_strings asks for (the code passes 10)

\* ---------------------------------------------------------------- identities
Folders == 1..NFolders
LangFiles(f) == IF f = 1 THEN 1..NLangs ELSE {}
Folder(f) == <<f, 0>>
Lang(f, i) == <<f, i>>
FolderObjs == {Folder(f) : f \in Folders}
LangObjs == UNION {{Lang(f, i) : i \in LangFiles(f)} : f \in Folders}
\* language tasks of a folder outside the run (index 0), started by a caller
\* of its own
GateObjs == {Lang(0, i) : i \in 1..NGateTasks}
Objects == FolderObjs \cup LangObjs \cup GateObjs
Handles == Objects \X (1..MaxStarts)
Obj(x) == x[1]
IsLang(o) == o[2] # 0
FolderOf(o) == o[1]
Children(f) == {Lang(f, i) : i \in LangFiles(f)}

\* the three asyncio.Semaphore objects of the program
Gates == {"SEM", "db_sem", "io_sem"}
\* Task.SEM is None (base.Task, SyncFolderTask); SyncLangTask.SEM is a Semaphore
task_sem(o) == IF IsLang(o) THEN "SEM" ELSE "None"

BodyResults == {"return", "CancelledError", "Shutdown", "Exception"}

VARIABLES
    shutdown_requested, \* Base.shutdown_requested (asyncio.Event)
    cap,                \* capacity each Semaphore was constructed with
    value,              \* Semaphore._value: free permits
    waiters,            \* Semaphore._waiters: FIFO of suspended handles
    _task,              \* Task._task: 0 (None) or the index of the object's handle
    _stack,             \* Task._stack: number of task_sem permits pushed on it
    pc,                 \* the await each asyncio task (handle) is suspended at
    must_cancel,        \* a cancel() was requested and not yet delivered
    bodyResult,         \* how the body of _main_outer's try block ended
    log,                \* the branch of _main_outer that classified the result
    done,               \* asyncio state of the handle
    rows,               \* INSERTs executed in the handle's open transaction
    dbheld,             \* the db_sem permit is on the handle's local exit stack
    committed,          \* rows of the language file that are durable
    outer,              \* state of the gather future a folder task awaits
    mainpc,             \* position of Base.async_main (the main task)
    mainResult,         \* how the try block of async_main ended
    mainOuter,          \* state of the gather future sub_main awaits
    wakeup,             \* the _signals_wakeup task (fallback signal path)
    calls,              \* start() and wait() calls made by callers outside the tree
    waitRet,            \* handles wait() has returned to those callers
    seenOutcome,        \* outcomes they observed by awaiting these handles
    shutdown_logged,    \* "Shutdown requested" warnings Base.shutdown has written
    sleeper,            \* position of a caller of Base.sleep_or_shutdown
    sleepRet,           \* what sleep_or_shutdown returned, and the event at that moment
    lacking,            \* string pairs with fewer suggestions than min_suggestions
    string_pairs,       \* the batch _pick_strings returned to sub_main
    pair,               \* index in string_pairs of the pair the for loop is at
    extra,              \* the pair _pick_extra fetched context for (0: none)
    response,           \* the pair the held completion answers (0: none)
    stored,             \* suggestion rows committed: the pair and its response
    keys,               \* len(SyncFolderTask.keys) once keys.txt was read to its end (0 before)
    lines,              \* len(SyncLangTask.lines) once the file was read to its end (0 before)
    platform,           \* what the event loop of the platform supports
    previous,           \* the handler of each signal before _signals_bind
    handlers,           \* the handler of each signal (signal.getsignal)
    bound,              \* the path _signals_bind took
    last_signal         \* what the delivery of the last signal did

gateVars == <<value, waiters>>
taskVars == <<_task, _stack, pc, must_cancel, bodyResult, log, done, rows, dbheld, committed, outer>>
mainVars == <<mainpc, mainResult, mainOuter, wakeup>>
apiVars == <<calls, waitRet, seenOutcome>>
sleepVars == <<sleeper, sleepRet>>
analyzeVars == <<lacking, string_pairs, pair, extra, response, stored>>
fileVars == <<keys, lines>>
sigVars == <<platform, previous, handlers, bound, last_signal>>
extVars == <<shutdown_logged, sleepVars, analyzeVars, fileVars, sigVars>>
vars == <<shutdown_requested, cap, gateVars, taskVars, mainVars, apiVars, extVars>>

\* ------------------------------------------------------------------ helpers
Cur(o) == <<o, _task[o]>>
Started(o) == _task[o] # 0
Created(x) == pc[x] # "none"
Terminal(x) == done[x] # "pending"
Live(x) == Created(x) /\ ~Terminal(x)

\* Helper.check_shutdown: raises Shutdown iff the event is set
check_shutdown == shutdown_requested

\* the main task (Base.async_main) as a semaphore waiter; nothing cancels it
Main == <<<<0, 0>>, 0>>
Cancelling(w) == IF w = Main THEN FALSE ELSE must_cancel[w]

\* a semaphore that never reports itself locked
locked_never(g) == FALSE

\* semaphores that count their permits in one pool
locked_shared_pool(g) ==
    \/ \E h \in Gates : value[h] = 0
    \/ \E k \in 1..Len(waiters[g]) : ~Cancelling(waiters[g][k])

\* Semaphore.locked(): no free permit, or a waiter that is not cancelled
locked(g) ==
    \/ value[g] = 0
    \/ \E k \in 1..Len(waiters[g]) : ~Cancelling(waiters[g][k])

\* a wake-up that serves the newest waiter
FirstLive_newest(g) ==
    LET live == {k \in 1..Len(waiters[g]) : ~Cancelling(waiters[g][k])}
    IN IF live = {} THEN <<>>
       ELSE waiters[g][CHOOSE k \in live : \A j \in live : k >= j]

\* the waiter Semaphore._wake_up_next hands a released permit to
FirstLive(g) ==
    LET live == {k \in 1..Len(waiters[g]) : ~Cancelling(waiters[g][k])}
    IN IF live = {} THEN <<>>
       ELSE waiters[g][CHOOSE k \in live : \A j \in live : k <= j]

Without(q, x) == SelectSeq(q, LAMBDA y : y # x)

\* the except clauses without the raise of line 142
_main_outer_without_raise(res) ==
    CASE res = "return" -> [log |-> "none", done |-> "returned"]
      [] res = "CancelledError" -> [log |-> "warning_cancelled", done |-> "returned"]
      [] res = "Shutdown" -> [log |-> "warning_shutdown", done |-> "returned"]
      [] res = "Exception" -> [log |-> "error_failed", done |-> "returned"]

\* ------------------------------------------------ Task._main_outer (base.py)
\* The except clauses of _main_outer: which log line is written and whether
\* the asyncio task ends by returning or by re-raising (raise exc, line 142).
_main_outer(res) ==
    CASE res = "return" -> [log |-> "none", done |-> "returned"]
      [] res = "CancelledError" -> [log |-> "warning_cancelled", done |-> "returned"]
      [] res = "Shutdown" -> [log |-> "warning_shutdown", done |-> "returned"]
      [] res = "Exception" -> [log |-> "error_failed", done |-> "raised"]

\* a gather that collects the exceptions of its children (return_exceptions)
gather_callback_collects(state, d) == state

\* asyncio.gather(..., return_exceptions=False): the done-callback of a child
\* sets the outer future as soon as one child raised or was cancelled.
gather_callback(state, d) ==
    IF state # "pending" THEN state
    ELSE IF d = "raised" THEN "exc"
    ELSE IF d = "cancelled" THEN "cancelled"
    ELSE state

\* the handle x ended with asyncio state d: run the callbacks of its awaiters
Notify(x, d) ==
    LET o == Obj(x) IN
    IF x # Cur(o) \/ o \in GateObjs THEN UNCHANGED <<outer, mainOuter>>
    ELSE IF IsLang(o)
    THEN /\ outer' = [outer EXCEPT ![FolderOf(o)] = gather_callback(@, d)]
         /\ UNCHANGED mainOuter
    ELSE /\ mainOuter' = gather_callback(mainOuter, d)
         /\ UNCHANGED outer

\* an exit that leaves the permit of the class gate behind
Released_db_gate_only(x) ==
    [g \in Gates |-> IF g = "db_sem" /\ dbheld[x] THEN 1 ELSE 0]

\* an exit that leaves the permit of db_sem behind
Released_class_gate_only(x) ==
    [g \in Gates |-> IF g = task_sem(Obj(x)) THEN _stack[Obj(x)] ELSE 0]

\* permits popped when x leaves its exit stacks: the local stack of
\* store_lines (db_sem) and Task._stack (every task_sem pushed on it)
Released(x) ==
    [g \in Gates |->
        (IF g = "db_sem" /\ dbheld[x] THEN 1 ELSE 0)
        + (IF g = task_sem(Obj(x)) THEN _stack[Obj(x)] ELSE 0)]

\* x leaves "async with self._stack" with body result res; _main_outer
\* classifies it and the asyncio task ends.
Exit(x, res) ==
    LET c == _main_outer(res) IN
    /\ value' = [g \in Gates |-> value[g] + Released(x)[g]]
    /\ waiters' = [g \in Gates |-> Without(waiters[g], x)]
    /\ _stack' = [_stack EXCEPT ![Obj(x)] = 0]
    /\ dbheld' = [dbheld EXCEPT ![x] = FALSE]
    /\ pc' = [pc EXCEPT ![x] = "done"]
    /\ bodyResult' = [bodyResult EXCEPT ![x] = res]
    /\ log' = [log EXCEPT ![x] = c.log]
    /\ done' = [done EXCEPT ![x] = c.done]
    /\ rows' = [rows EXCEPT ![x] = 0]
    /\ must_cancel' = [must_cancel EXCEPT ![x] = FALSE]
    /\ Notify(x, c.done)
    /\ UNCHANGED <<_task, committed>>

\* cancel() reached the task before its first step: CancelledError is thrown
\* into the unstarted coroutine, the try block of _main_outer is never entered
Abort(x) ==
    /\ pc' = [pc EXCEPT ![x] = "done"]
    /\ done' = [done EXCEPT ![x] = "cancelled"]
    /\ must_cancel' = [must_cancel EXCEPT ![x] = FALSE]
    /\ Notify(x, "cancelled")
    /\ UNCHANGED <<gateVars, _task, _stack, bodyResult, log, rows, dbheld, committed>>

\* Semaphore.acquire succeeded: x holds a permit of g and suspends at `to`
Take(x, g, to) ==
    /\ value' = [value EXCEPT ![g] = @ - 1]
    /\ waiters' = [waiters EXCEPT ![g] = Without(@, x)]
    /\ IF g = "db_sem"
       THEN dbheld' = [dbheld EXCEPT ![x] = TRUE] /\ UNCHANGED _stack
       ELSE _stack' = [_stack EXCEPT ![Obj(x)] = @ + 1] /\ UNCHANGED dbheld
    /\ pc' = [pc EXCEPT ![x] = to]
    /\ UNCHANGED <<_task, must_cancel, bodyResult, log, done, rows, committed, outer, mainOuter>>

\* Semaphore.acquire found the gate locked: x joins the waiters
Queue(x, g, to) ==
    /\ waiters' = [waiters EXCEPT ![g] = Append(@, x)]
    /\ pc' = [pc EXCEPT ![x] = to]
    /\ UNCHANGED <<value, _task, _stack, must_cancel, bodyResult, log, done, rows, dbheld, committed, outer, mainOuter>>

\* x runs on to its next await without touching a gate
Goto(x, to, r) ==
    /\ pc' = [pc EXCEPT ![x] = to]
    /\ rows' = [rows EXCEPT ![x] = r]
    /\ UNCHANGED <<gateVars, _task, _stack, must_cancel, bodyResult, log, done, dbheld, committed, outer, mainOuter>>

\* an exit stack that releases db_sem before it closes the connection
Closing_after_release(x, res, durable) ==
    /\ pc' = [pc EXCEPT ![x] = "closing"]
    /\ bodyResult' = [bodyResult EXCEPT ![x] = res]
    /\ rows' = [rows EXCEPT ![x] = 0]
    /\ committed' = [committed EXCEPT ![Obj(x)] = durable]
    /\ must_cancel' = [must_cancel EXCEPT ![x] = FALSE]
    /\ value' = [value EXCEPT !["db_sem"] = @ + 1]
    /\ dbheld' = [dbheld EXCEPT ![x] = FALSE]
    /\ UNCHANGED <<waiters, _task, _stack, log, done, outer, mainOuter>>

\* the body of store_lines ended with res while the connection is open:
\* AsyncExitStack.__aexit__ awaits the connection's close (which ends the
\* transaction) before it releases db_sem
Closing(x, res, durable) ==
    /\ pc' = [pc EXCEPT ![x] = "closing"]
    /\ bodyResult' = [bodyResult EXCEPT ![x] = res]
    /\ rows' = [rows EXCEPT ![x] = 0]
    /\ committed' = [committed EXCEPT ![Obj(x)] = durable]
    /\ must_cancel' = [must_cancel EXCEPT ![x] = FALSE]
    /\ UNCHANGED <<gateVars, _task, _stack, log, done, dbheld, outer, mainOuter>>

\* Task.start (base.py 144-146): creates an asyncio task for _main_outer and
\* stores it in self._task, whatever self._task held.  The result is the
\* pair of _task and pc after the call.
start(o) ==
    [task |-> [_task EXCEPT ![o] = @ + 1],
     pc |-> [pc EXCEPT ![<<o, _task[o] + 1>>] = "new"]]

\* a wait without the test of self._task
wait_always_starts(o) == start(o)

\* Task.wait (base.py 148-151): starts the task only if self._task is unset
wait(o) ==
    IF _task[o] = 0 THEN start(o) ELSE [task |-> _task, pc |-> pc]

\* ------------------------------------- SyncLangTask (sync_translations.py)
\* first step of the asyncio task: _main_outer enters self._stack and the
\* class gate, main() calls read_lines, which checks shutdown and opens the file
LangStart(x) ==
    /\ IsLang(Obj(x)) /\ pc[x] = "new"
    /\ IF must_cancel[x] THEN Abort(x)
       ELSE IF locked("SEM") THEN Queue(x, "SEM", "wait_sem")
       ELSE IF check_shutdown THEN Exit(x, "Shutdown")
       ELSE Take(x, "SEM", "read")
    /\ UNCHANGED <<shutdown_requested, extVars, cap, mainpc, mainResult, wakeup, apiVars>>

\* the suspended acquire of the class gate ends: by the cancellation, or with
\* the permit, after which read_lines checks shutdown (line 31)
LangSemAcquired(x) ==
    /\ pc[x] = "wait_sem"
    /\ IF must_cancel[x] THEN Exit(x, "CancelledError")
       ELSE /\ value["SEM"] > 0 /\ FirstLive("SEM") = x
            /\ IF check_shutdown THEN Exit(x, "Shutdown") ELSE Take(x, "SEM", "read")
    /\ UNCHANGED <<shutdown_requested, extVars, cap, mainpc, mainResult, wakeup, apiVars>>

\* the line counts a language file may have: that of keys.txt, or one more
FileLines == {NRows, NRows + 1}

\* a read_lines without the comparison of lines 39-40
LangRead_unchecked(x) ==
    LET o == Obj(x)
        aborts(res) == Exit(x, res) /\ UNCHANGED lines
    IN
    /\ pc[x] = "read"
    /\ IF must_cancel[x] THEN aborts("CancelledError")
       ELSE \/ aborts("Exception")
            \/ check_shutdown /\ aborts("Shutdown")
            \/ /\ ~check_shutdown
               /\ \E n \in FileLines :
                     /\ lines' = [lines EXCEPT ![o] = n]
                     /\ IF locked("db_sem") THEN Queue(x, "db_sem", "wait_db")
                        ELSE Take(x, "db_sem", "connecting")
    /\ UNCHANGED <<shutdown_requested, shutdown_logged, sleepVars, analyzeVars, keys, sigVars>>
    /\ UNCHANGED <<cap, mainpc, mainResult, wakeup, apiVars>>

\* the read of the language file ended (read_lines 33-38): by an I/O error, a
\* cancellation or a shutdown check before the end of the file, or at its
\* end with every line appended.  Then the line count is compared with the
\* folder's key count (39-40), store_lines checks shutdown (line 44) and
\* db_conn acquires db_sem (base.py 62)
LangRead(x) ==
    LET o == Obj(x)
        f == FolderOf(o)
        aborts(res) == Exit(x, res) /\ UNCHANGED lines
    IN
    /\ pc[x] = "read"
    /\ IF must_cancel[x] THEN aborts("CancelledError")
       ELSE \/ aborts("Exception")
            \/ check_shutdown /\ aborts("Shutdown")
            \/ /\ ~check_shutdown
               /\ \E n \in FileLines :
                     /\ lines' = [lines EXCEPT ![o] = n]
                     /\ IF n # keys[f] THEN Exit(x, "Exception")
                        ELSE IF locked("db_sem") THEN Queue(x, "db_sem", "wait_db")
                        ELSE Take(x, "db_sem", "connecting")
    /\ UNCHANGED <<shutdown_requested, shutdown_logged, sleepVars, analyzeVars, keys, sigVars>>
    /\ UNCHANGED <<cap, mainpc, mainResult, wakeup, apiVars>>

\* the suspended acquire of db_sem in db_conn ends; db_conn goes on to enter
\* the connection (base.py 63) without looking at the shutdown event
LangDbAcquired(x) ==
    /\ pc[x] = "wait_db" /\ IsLang(Obj(x))
    /\ IF must_cancel[x] THEN Exit(x, "CancelledError")
       ELSE /\ value["db_sem"] > 0 /\ FirstLive("db_sem") = x
            /\ Take(x, "db_sem", "connecting")
    /\ UNCHANGED <<shutdown_requested, extVars, cap, mainpc, mainResult, wakeup, apiVars>>

\* the connection is open (or failed to open); store_lines checks shutdown
\* (line 51) and executes the first INSERT (line 55)
LangConnected(x) ==
    /\ pc[x] = "connecting"
    /\ IF must_cancel[x] THEN Exit(x, "CancelledError")
       ELSE \/ Exit(x, "Exception")
            \/ IF check_shutdown THEN Closing(x, "Shutdown", committed[Obj(x)])
               ELSE IF NRows = 0 THEN Goto(x, "commit", 0)
               ELSE Goto(x, "insert", 0)
    /\ UNCHANGED <<shutdown_requested, extVars, cap, mainpc, mainResult, wakeup, apiVars>>

\* a store_lines on a connection that commits every statement by itself
LangInserted_autocommit(x) ==
    /\ pc[x] = "insert"
    /\ IF must_cancel[x] THEN Closing(x, "CancelledError", rows[x])
       ELSE \/ Closing(x, "Exception", rows[x])
            \/ IF check_shutdown THEN Closing(x, "Shutdown", rows[x] + 1)
               ELSE IF rows[x] + 1 < NRows THEN Goto(x, "insert", rows[x] + 1)
               ELSE Goto(x, "commit", rows[x] + 1)
    /\ UNCHANGED <<shutdown_requested, extVars, cap, mainpc, mainResult, wakeup, apiVars>>

\* an INSERT returned; shutdown is checked (line 56), then the next INSERT or
\* the commit (line 57) begins
LangInserted(x) ==
    /\ pc[x] = "insert"
    /\ IF must_cancel[x] THEN Closing(x, "CancelledError", committed[Obj(x)])
       ELSE \/ Closing(x, "Exception", committed[Obj(x)])
            \/ IF check_shutdown THEN Closing(x, "Shutdown", committed[Obj(x)])
               ELSE IF rows[x] + 1 < NRows THEN Goto(x, "insert", rows[x] + 1)
               ELSE Goto(x, "commit", rows[x] + 1)
    /\ UNCHANGED <<shutdown_requested, extVars, cap, mainpc, mainResult, wakeup, apiVars>>

\* the commit returned; a cancellation leaves the in-flight commit either
\* applied or not
LangCommitted(x) ==
    /\ pc[x] = "commit"
    /\ IF must_cancel[x]
       THEN \E d \in {committed[Obj(x)], rows[x]} : Closing(x, "CancelledError", d)
       ELSE \/ Closing(x, "Exception", committed[Obj(x)])
            \/ Closing(x, "return", rows[x])
    /\ UNCHANGED <<shutdown_requested, extVars, cap, mainpc, mainResult, wakeup, apiVars>>

\* the connection is closed (or its close was cancelled): the exit stacks
\* release db_sem and the class gate and _main_outer classifies the result
LangClosed(x) ==
    /\ pc[x] = "closing"
    /\ Exit(x, IF must_cancel[x] THEN "CancelledError" ELSE bodyResult[x])
    /\ UNCHANGED <<shutdown_requested, extVars, cap, mainpc, mainResult, wakeup, apiVars>>

\* ----------------------------------- SyncFolderTask (sync_translations.py)
\* the language file find_languages reaches next: the first one not started
NextEntry(f) == CHOOSE i \in LangFiles(f) :
    /\ _task[Lang(f, i)] = 0
    /\ \A j \in LangFiles(f) : _task[Lang(f, j)] = 0 => i <= j
Unstarted(f) == {i \in LangFiles(f) : _task[Lang(f, i)] = 0}

\* Helper.gather (base.py 51-52) over the handles wait() returns: the state of
\* the gather future once the callbacks of the children already done have run
gather(children, d) ==
    LET bad == {i \in children : d[i] \in {"raised", "cancelled"}}
        first == CHOOSE i \in bad : \A j \in bad : i <= j
    IN IF bad = {} THEN "pending"
       ELSE gather_callback("pending", d[first])

\* first step: SyncFolderTask has no class gate; main() calls read_keys
FolderStart(x) ==
    /\ ~IsLang(Obj(x)) /\ pc[x] = "new"
    /\ IF must_cancel[x] THEN Abort(x)
       ELSE IF check_shutdown THEN Exit(x, "Shutdown")
       ELSE Goto(x, "read_keys", 0)
    /\ UNCHANGED <<shutdown_requested, extVars, cap, mainpc, mainResult, wakeup, apiVars>>

\* the read of keys.txt ended (read_keys 79-84): aborted before the end of
\* the file, or at its end with every key appended; then find_languages
\* checks shutdown (89) and scans the folder (92)
FolderKeysRead(x) ==
    LET f == FolderOf(Obj(x))
        aborts(res) == Exit(x, res) /\ UNCHANGED keys
    IN
    /\ pc[x] = "read_keys"
    /\ IF must_cancel[x] THEN aborts("CancelledError")
       ELSE \/ aborts("Exception")
            \/ IF check_shutdown THEN aborts("Shutdown")
               ELSE Goto(x, "scandir", 0) /\ keys' = [keys EXCEPT ![f] = NRows]
    /\ UNCHANGED <<shutdown_requested, shutdown_logged, sleepVars, analyzeVars, lines, sigVars>>
    /\ UNCHANGED <<cap, mainpc, mainResult, wakeup, apiVars>>

\* scandir returned (92-93); the loop awaits isfile for the first language
\* file, or, with none, main gathers the empty list and returns
FolderScanned(x) ==
    /\ pc[x] = "scandir"
    /\ IF must_cancel[x] THEN Exit(x, "CancelledError")
       ELSE \/ Exit(x, "Exception")
            \/ IF check_shutdown THEN Exit(x, "Shutdown")
               ELSE IF LangFiles(FolderOf(Obj(x))) = {} THEN Exit(x, "return")
               ELSE Goto(x, "isfile", 0)
    /\ UNCHANGED <<shutdown_requested, extVars, cap, mainpc, mainResult, wakeup, apiVars>>

\* isfile returned (99): shutdown is checked (101), the SyncLangTask is
\* created and started (103-105); after the last entry main checks shutdown
\* (114) and awaits gather(self.langs) (115)
FolderIsFile(x) ==
    LET f == FolderOf(Obj(x))
        new == Lang(f, NextEntry(f))
        s == start(new)
        \* gather(self.langs): wait() on every child, the new one included
        \* (its _task is set by the start just made)
        w == [task |-> [o \in Objects |-> IF o \in Children(f) \ {new} THEN wait(o).task[o] ELSE s.task[o]],
              pc |-> [y \in Handles |-> IF Obj(y) \in Children(f) \ {new} THEN wait(Obj(y)).pc[y] ELSE s.pc[y]]]
    IN
    /\ pc[x] = "isfile"
    /\ IF must_cancel[x] THEN Exit(x, "CancelledError")
       ELSE IF check_shutdown THEN Exit(x, "Shutdown")
       ELSE /\ IF Unstarted(f) = {NextEntry(f)}
               THEN /\ _task' = w.task
                    /\ pc' = [w.pc EXCEPT ![x] = "gather"]
                    /\ outer' = [outer EXCEPT ![f] =
                          gather(LangFiles(f), [i \in LangFiles(f) |-> done[<<Lang(f, i), w.task[Lang(f, i)]>>]])]
               ELSE /\ _task' = s.task
                    /\ pc' = [s.pc EXCEPT ![x] = "isfile"]
                    /\ UNCHANGED outer
            /\ UNCHANGED <<gateVars, _stack, must_cancel, bodyResult, log, done, rows, dbheld, committed, mainOuter>>
    /\ UNCHANGED <<shutdown_requested, extVars, cap, mainpc, mainResult, wakeup, apiVars>>

\* the gather future is done: a child raised (its exception is re-raised in
\* main), a child was cancelled, or every child has ended
FolderGathered(x) ==
    LET f == FolderOf(Obj(x)) IN
    /\ pc[x] = "gather"
    /\ \/ outer[f] # "pending"
       \/ \A c \in Children(f) : Terminal(Cur(c))
    /\ IF outer[f] = "exc" THEN Exit(x, "Exception")
       ELSE IF outer[f] = "cancelled" \/ must_cancel[x] THEN Exit(x, "CancelledError")
       ELSE Exit(x, "return")
    /\ UNCHANGED <<shutdown_requested, extVars, cap, mainpc, mainResult, wakeup, apiVars>>

\* ------------------------------------------------- Base.async_main (base.py)
Pending == {x \in Handles : Live(x)}
WakeupLive == wakeup \in {"sleeping", "cancelling"}

\* the permit of db_sem the main task holds inside refresh_views
MainHoldsDb == mainpc \in
    {"refresh_connecting", "refresh_execute", "refresh_commit", "refresh_closing",
     "rv_connecting", "rv_execute", "rv_commit", "rv_closing", "rv_failing",
     "ps_connecting", "ps_execute", "ps_closing", "ps_failing",
     "pe_connecting", "pe_execute", "pe_closing", "pe_failing",
     "sg_connecting", "sg_insert", "sg_commit", "sg_closing", "sg_failing", "sg_shutdown"}

\* a drain that waits for the tasks without cancelling them
cleanup_loop_without_cancel ==
    IF Pending = {} /\ ~WakeupLive
    THEN /\ mainpc' = "exited"
         /\ UNCHANGED <<must_cancel, wakeup>>
    ELSE /\ mainpc' = "cleanup_wait"
         /\ UNCHANGED <<must_cancel, wakeup>>

\* a drain that cancels once and returns without enumerating again
cleanup_loop_single_pass ==
    /\ mainpc' = "exited"
    /\ must_cancel' = [x \in Handles |-> must_cancel[x] \/ Live(x)]
    /\ wakeup' = IF WakeupLive THEN "cancelling" ELSE wakeup

\* Base.cleanup_loop (346-357), one iteration: enumerate the tasks that are
\* not done; return if there is none, else cancel them all and await
\* asyncio.wait(tasks, timeout=5)
cleanup_loop ==
    IF Pending = {} /\ ~WakeupLive
    THEN /\ mainpc' = "exited"
         /\ UNCHANGED <<must_cancel, wakeup>>
    ELSE /\ mainpc' = "cleanup_wait"
         /\ must_cancel' = [x \in Handles |-> must_cancel[x] \/ Live(x)]
         /\ wakeup' = IF WakeupLive THEN "cancelling" ELSE wakeup

\* an async_main without the finally clause
MainFinish_without_drain(res) ==
    /\ mainResult' = res
    /\ mainpc' = "exited"
    /\ UNCHANGED <<must_cancel, wakeup>>

\* the try block of async_main ended with res (359-372); finally: cleanup_loop
MainFinish(res) ==
    /\ mainResult' = res
    /\ cleanup_loop

\* an async_main whose except clauses all swallow
async_main_except_swallows(res) == "returned"

\* the except clauses of async_main (366-372): except Exception re-raises,
\* the other clauses only warn
async_main_except(res) ==
    CASE res = "return" -> "returned"
      [] res = "CancelledError" -> "returned"
      [] res = "Shutdown" -> "returned"
      [] res = "Exception" -> "raised"

\* how async_main itself ends
async_main_raises == mainpc = "exited" /\ async_main_except(mainResult) = "raised"

\* Base.main (376-387): run_until_complete re-raises what the main task
\* raised and the interpreter ends with status 1 on the uncaught exception;
\* otherwise main returns and the status is 0
exit_status == IF async_main_raises THEN 1 ELSE 0

\* _async_post (236-239) and the start of _db_prepare / _db_version
MainPost ==
    /\ mainpc = "post"
    /\ IF check_shutdown THEN MainFinish("Shutdown")
       ELSE mainpc' = "db_version" /\ UNCHANGED <<mainResult, must_cancel, wakeup>>
    /\ UNCHANGED <<shutdown_requested, extVars, cap, gateVars, _task, _stack, pc, bodyResult, log, done, rows, dbheld, committed, outer, mainOuter, apiVars>>

\* _db_version (298-312) on a connection taken from the engine directly
MainDbVersion ==
    /\ mainpc = "db_version"
    /\ \/ MainFinish("Exception")
       \/ IF check_shutdown THEN MainFinish("Shutdown")
          ELSE mainpc' = "db_load_meta" /\ UNCHANGED <<mainResult, must_cancel, wakeup>>
    /\ UNCHANGED <<shutdown_requested, extVars, cap, gateVars, _task, _stack, pc, bodyResult, log, done, rows, dbheld, committed, outer, mainOuter, apiVars>>

\* _db_load_meta (314-326); then sub_main calls find_keys
MainDbLoadMeta ==
    /\ mainpc = "db_load_meta"
    /\ \/ MainFinish("Exception")
       \/ IF check_shutdown THEN MainFinish("Shutdown")
          ELSE mainpc' = "find_keys" /\ UNCHANGED <<mainResult, must_cancel, wakeup>>
    /\ UNCHANGED <<shutdown_requested, extVars, cap, gateVars, _task, _stack, pc, bodyResult, log, done, rows, dbheld, committed, outer, mainOuter, apiVars>>

\* the result of wait() on every folder task, in turn
WaitAll ==
    [task |-> [o \in Objects |-> IF IsLang(o) THEN _task[o] ELSE wait(o).task[o]],
     pc |-> [x \in Handles |-> IF IsLang(Obj(x)) THEN pc[x] ELSE wait(Obj(x)).pc[x]]]

\* find_keys (137-149) ended; sub_main builds the SyncFolderTasks and awaits
\* gather(key_tasks), whose wait() calls start them (164-169)
MainFindKeys ==
    /\ mainpc = "find_keys"
    /\ IF check_shutdown
       THEN MainFinish("Shutdown") /\ UNCHANGED <<_task, pc, mainOuter>>
       ELSE /\ _task' = WaitAll.task
            /\ pc' = WaitAll.pc
            /\ mainOuter' = gather(Folders, [f \in Folders |-> done[<<Folder(f), WaitAll.task[Folder(f)]>>]])
            /\ mainpc' = "gather"
            /\ UNCHANGED <<mainResult, must_cancel, wakeup>>
    /\ UNCHANGED <<shutdown_requested, extVars, cap, gateVars, _stack, bodyResult, log, done, rows, dbheld, committed, outer, apiVars>>

\* gather(key_tasks) is done; on success refresh_views checks shutdown (152)
\* and db_conn acquires db_sem (159)
MainGathered ==
    /\ mainpc = "gather"
    /\ \/ mainOuter # "pending"
       \/ \A f \in Folders : Terminal(Cur(Folder(f)))
    /\ IF mainOuter = "exc" THEN MainFinish("Exception") /\ UNCHANGED gateVars
       ELSE IF mainOuter = "cancelled" THEN MainFinish("CancelledError") /\ UNCHANGED gateVars
       ELSE IF check_shutdown THEN MainFinish("Shutdown") /\ UNCHANGED gateVars
       ELSE /\ IF locked("db_sem")
               THEN /\ mainpc' = "refresh_wait_db"
                    /\ waiters' = [waiters EXCEPT !["db_sem"] = Append(@, Main)]
                    /\ UNCHANGED value
               ELSE /\ mainpc' = "refresh_connecting"
                    /\ value' = [value EXCEPT !["db_sem"] = @ - 1]
                    /\ UNCHANGED waiters
            /\ UNCHANGED <<mainResult, must_cancel, wakeup>>
    /\ UNCHANGED <<shutdown_requested, extVars, cap, _task, _stack, pc, bodyResult, log, done, rows, dbheld, committed, outer, mainOuter, apiVars>>

\* refresh_views (151-162): the acquire of db_sem, the connection, the
\* REFRESH statement, the commit, and the exit stack closing the connection
\* and releasing db_sem
MainRefresh ==
    /\ CASE mainpc = "refresh_wait_db" ->
              /\ value["db_sem"] > 0 /\ FirstLive("db_sem") = Main
              /\ value' = [value EXCEPT !["db_sem"] = @ - 1]
              /\ waiters' = [waiters EXCEPT !["db_sem"] = Without(@, Main)]
              /\ mainpc' = "refresh_connecting"
              /\ UNCHANGED <<mainResult, must_cancel, wakeup>>
         [] mainpc = "refresh_connecting" ->
              \/ /\ value' = [value EXCEPT !["db_sem"] = @ + 1]
                 /\ MainFinish("Exception")
                 /\ UNCHANGED waiters
              \/ /\ mainpc' = "refresh_execute"
                 /\ UNCHANGED <<gateVars, mainResult, must_cancel, wakeup>>
         [] mainpc = "refresh_execute" ->
              /\ \/ mainpc' = "refresh_closing" /\ mainResult' = "Exception"
                 \/ mainpc' = "refresh_commit" /\ UNCHANGED mainResult
              /\ UNCHANGED <<gateVars, must_cancel, wakeup>>
         [] mainpc = "refresh_commit" ->
              /\ mainpc' = "refresh_closing"
              /\ mainResult' \in {"return", "Exception"}
              /\ UNCHANGED <<gateVars, must_cancel, wakeup>>
         [] mainpc = "refresh_closing" ->
              /\ value' = [value EXCEPT !["db_sem"] = @ + 1]
              /\ MainFinish(mainResult)
              /\ UNCHANGED waiters
         [] OTHER -> FALSE
    /\ UNCHANGED <<shutdown_requested, extVars, cap, _task, _stack, pc, bodyResult, log, done, rows, dbheld, committed, outer, mainOuter, apiVars>>

\* asyncio.wait(tasks, timeout=5) returned, every task done or not: the loop
\* of cleanup_loop enumerates again
MainCleanupWake ==
    /\ mainpc = "cleanup_wait"
    /\ cleanup_loop
    /\ UNCHANGED <<shutdown_requested, extVars, cap, gateVars, _task, _stack, pc, bodyResult, log, done, rows, dbheld, committed, outer, mainResult, mainOuter, apiVars>>

\* _signals_wakeup (247-251) receives the CancelledError at its sleep
WakeupCancelled ==
    /\ wakeup = "cancelling"
    /\ wakeup' = "cancelled"
    /\ UNCHANGED <<shutdown_requested, extVars, cap, gateVars, taskVars, mainpc, mainResult, mainOuter, apiVars>>

\* a shutdown that flips the event instead of setting it
shutdown_toggles ==
    /\ mainpc # "exited"
    /\ shutdown_logged < MaxShutdowns
    /\ shutdown_logged' = shutdown_logged + 1
    /\ shutdown_requested' = ~shutdown_requested
    /\ UNCHANGED <<cap, gateVars, taskVars, mainVars, apiVars, sleepVars, analyzeVars, fileVars, sigVars>>

\* Base.shutdown (243-245), called by a signal handler: writes the warning
\* (244), then sets the event (245)
shutdown ==
    /\ mainpc # "exited"
    /\ shutdown_logged < MaxShutdowns
    /\ shutdown_logged' = shutdown_logged + 1
    /\ shutdown_requested' = TRUE
    /\ UNCHANGED <<cap, gateVars, taskVars, mainVars, apiVars, sleepVars, analyzeVars, fileVars, sigVars>>

\* ------------------------------------------------ signals (base.py 253-283)
Signals == {"SIGINT", "SIGTERM", "SIGBREAK"}
\* the signals the platform defines: signal.SIGBREAK exists on Windows only
SignalsOf(p) == IF p = "windows" THEN Signals ELSE {"SIGINT", "SIGTERM"}
\* what signal.getsignal can return before the binding
OldHandlers == {"SIG_DFL", "SIG_IGN", "default_int_handler"}
callable(h) == h \notin {"SIG_DFL", "SIG_IGN", "None"}
\* the handlers of a starting interpreter
StartHandlers == [sig \in Signals |-> IF sig = "SIGINT" THEN "default_int_handler" ELSE "SIG_DFL"]
\* A handler is the chain of functions a delivery runs: <<h>> for a handler h
\* of before the binding, <<"shutdown">> for the callback given to the loop,
\* <<"_handle", h>> for functools.partial(_handle, handler=h).
Unbound(old) == [sig \in Signals |-> <<old[sig]>>]
NoSignal == [signum |-> "None", shutdown |-> FALSE, handler |-> "None"]

\* the loop of lines 274-277 over the signals left in sigs: the old handler
\* is read for signal_num, the new one is installed for SIGINT
RECURSIVE signal_signal(_, _)
signal_signal(table, sigs) ==
    IF sigs = <<>> THEN table
    ELSE LET signal_num == Head(sigs)
             old_handler == table[signal_num][1]
         IN signal_signal([table EXCEPT !["SIGINT"] = <<"_handle", old_handler>>], Tail(sigs))

\* the handler table and the path _signals_bind ends with: the loop handlers
\* (256-259) where add_signal_handler is supported, else (NotImplementedError,
\* a RuntimeError) the fallback handlers (267-281)
signals_bind(p, table) ==
    IF p = "unix"
    THEN [bound |-> "loop",
          handlers |-> [table EXCEPT !["SIGINT"] = <<"shutdown">>, !["SIGTERM"] = <<"shutdown">>]]
    ELSE [bound |-> "fallback",
          handlers |-> signal_signal(table, <<"SIGINT", "SIGTERM", "SIGBREAK">>)]

\* _signals_bind, called by _async_prepare (230) before the main task exists;
\* the fallback path creates the _signals_wakeup task (279)
_signals_bind ==
    /\ bound = "unbound"
    /\ handlers' = signals_bind(platform, handlers).handlers
    /\ bound' = signals_bind(platform, handlers).bound
    /\ wakeup' = IF bound' = "fallback" THEN "sleeping" ELSE wakeup
    /\ mainpc' = "post"
    /\ UNCHANGED <<shutdown_requested, shutdown_logged, sleepVars, analyzeVars, fileVars,
                   platform, previous, last_signal, cap, gateVars, taskVars, mainResult, mainOuter, apiVars>>

\* The signal sig is delivered to the process and its handler runs: the loop
\* callback and _handle call Base.shutdown (243-245), _handle then calls the
\* handler it was given if that is callable (270-272).  SIG_IGN discards the
\* signal; SIG_DFL ends the process, and so does the KeyboardInterrupt of
\* default_int_handler.
Deliver(sig) ==
    LET h == handlers[sig]
        requests == Head(h) \in {"shutdown", "_handle"}
        passed == IF Head(h) = "_handle" /\ callable(h[2]) THEN h[2]
                  ELSE IF callable(Head(h)) /\ ~requests THEN Head(h)
                  ELSE "None"
        ends == Head(h) = "SIG_DFL" \/ passed = "default_int_handler"
    IN
    /\ bound # "unbound" /\ mainpc \notin {"exited", "killed"}
    /\ sig \in SignalsOf(platform)
    /\ shutdown_logged < MaxShutdowns
    /\ last_signal' = [signum |-> sig, shutdown |-> requests, handler |-> passed]
    /\ shutdown_requested' = (shutdown_requested \/ requests)
    /\ shutdown_logged' = IF requests THEN shutdown_logged + 1 ELSE shutdown_logged
    /\ mainpc' = IF ends THEN "killed" ELSE mainpc
    /\ UNCHANGED <<sleepVars, analyzeVars, fileVars, platform, previous, handlers, bound,
                   cap, gateVars, taskVars, mainResult, mainOuter, wakeup, apiVars>>

\* the signal state of a run whose _signals_bind has returned
SignalsBound ==
    /\ platform = IF wakeup = "sleeping" THEN "windows" ELSE "unix"
    /\ previous = StartHandlers
    /\ handlers = signals_bind(platform, Unbound(previous)).handlers
    /\ bound = signals_bind(platform, Unbound(previous)).bound
    /\ last_signal = NoSignal

\* what find_keys / a caller has read of keys.txt for the folders in F
KeysRead(F) == [f \in 0..NFolders |-> IF f \in F THEN NRows ELSE 0]

\* ------------------------------------------------------------ the program
\* the state after Base.__init__, _async_prepare and loop.create_task
Init ==
    /\ shutdown_requested = FALSE
    /\ cap \in {c \in [Gates -> 1..MaxCap] : c["io_sem"] = MaxCap}
    /\ value = cap
    /\ waiters = [g \in Gates |-> <<>>]
    /\ _task = [o \in Objects |-> 0]
    /\ _stack = [o \in Objects |-> 0]
    /\ pc = [x \in Handles |-> "none"]
    /\ must_cancel = [x \in Handles |-> FALSE]
    /\ bodyResult = [x \in Handles |-> "none"]
    /\ log = [x \in Handles |-> "none"]
    /\ done = [x \in Handles |-> "pending"]
    /\ rows = [x \in Handles |-> 0]
    /\ dbheld = [x \in Handles |-> FALSE]
    /\ committed = [o \in Objects |-> 0]
    /\ outer = [f \in Folders |-> "none"]
    /\ mainpc = "post"
    /\ mainResult = "none"
    /\ mainOuter = "none"
    /\ wakeup \in {"absent", "sleeping"}
    /\ calls = [o \in Objects |-> [start |-> 0, wait |-> 0, late |-> 0]]
    /\ waitRet = [o \in Objects |-> {}]
    /\ seenOutcome = [o \in Objects |-> {}]
    /\ shutdown_logged = 0
    /\ sleeper = "idle"
    /\ sleepRet = [value |-> FALSE, is_set |-> FALSE]
    /\ lacking = 1..NPairs
    /\ string_pairs = <<>>
    /\ pair = 0
    /\ extra = 0
    /\ response = 0
    /\ stored = {}
    /\ keys = KeysRead({})
    /\ lines = [o \in Objects |-> 0]
    /\ SignalsBound

TaskStep(x) ==
    \/ LangStart(x) \/ LangSemAcquired(x) \/ LangRead(x) \/ LangDbAcquired(x)
    \/ LangConnected(x) \/ LangInserted(x) \/ LangCommitted(x) \/ LangClosed(x)
    \/ FolderStart(x) \/ FolderKeysRead(x) \/ FolderScanned(x) \/ FolderIsFile(x)
    \/ FolderGathered(x)

MainStep ==
    \/ MainPost \/ MainDbVersion \/ MainDbLoadMeta \/ MainFindKeys
    \/ MainGathered \/ MainRefresh \/ MainCleanupWake

Next ==
    \/ \E x \in Handles : TaskStep(x)
    \/ MainStep
    \/ WakeupCancelled
    \/ shutdown

Spec == Init /\ [][Next]_vars

\* The event loop runs every callback that is ready: a coroutine whose await
\* has completed is resumed, whatever else is ready.
Fairness ==
    /\ \A x \in Handles : WF_vars(TaskStep(x))
    /\ WF_vars(MainStep)
    /\ WF_vars(WakeupCancelled)

SpecFair == Init /\ [][Next]_vars /\ Fairness

\* ------------------------------------------------- the Task interface alone
\* A caller outside the task tree (a test, another pipeline) holds one
\* SyncLangTask whose folder's keys are read, and calls start() and wait() on
\* it in any order while the handles it created run.
ApiObjs == {Lang(1, 1)}

ApiStart(o) ==
    /\ calls[o].start < MaxStarts /\ _task[o] < MaxStarts
    /\ _task' = start(o).task
    /\ pc' = start(o).pc
    /\ calls' = [calls EXCEPT ![o].start = @ + 1]
    /\ UNCHANGED <<shutdown_requested, extVars, cap, gateVars, _stack, must_cancel, bodyResult, log, done, rows, dbheld, committed, outer, mainVars, waitRet, seenOutcome>>

ApiWait(o) ==
    /\ calls[o].wait < MaxWaits
    /\ _task' = wait(o).task
    /\ pc' = wait(o).pc
    /\ calls' = [calls EXCEPT ![o].wait = @ + 1,
                          ![o].late = IF Started(o) /\ Terminal(Cur(o)) THEN @ + 1 ELSE @]
    /\ waitRet' = [waitRet EXCEPT ![o] = @ \cup {wait(o).task[o]}]
    /\ UNCHANGED <<shutdown_requested, extVars, cap, gateVars, _stack, must_cancel, bodyResult, log, done, rows, dbheld, committed, outer, mainVars, seenOutcome>>

\* awaiting a handle wait() returned, once it is done
ApiAwait(o) ==
    /\ \E n \in waitRet[o] :
          /\ Terminal(<<o, n>>)
          /\ seenOutcome' = [seenOutcome EXCEPT ![o] = @ \cup {done[<<o, n>>]}]
    /\ UNCHANGED <<shutdown_requested, extVars, cap, gateVars, taskVars, mainVars, calls, waitRet>>

\* Base.sleep_or_shutdown (285-294), called by such a caller.  Entry: with the
\* event already set it returns False at once (288-289); otherwise it awaits
\* wait_for(shutdown_requested.wait(), sleep) (291)
ApiSleepEnter ==
    /\ sleeper \in {"idle", "returned"}
    /\ IF shutdown_requested
       THEN /\ sleeper' = "returned"
            /\ sleepRet' = [value |-> FALSE, is_set |-> shutdown_requested]
       ELSE /\ sleeper' = "waiting"
            /\ UNCHANGED sleepRet
    /\ UNCHANGED <<shutdown_requested, shutdown_logged, analyzeVars, fileVars, sigVars, cap, gateVars, taskVars, mainVars, apiVars>>

\* wait_for ended: the event was set, or the timeout elapsed (TimeoutError is
\* passed over, 292-293); the result is "not is_set()" (294)
ApiSleepReturn ==
    /\ sleeper = "waiting"
    /\ sleeper' = "returned"
    /\ sleepRet' = [value |-> ~shutdown_requested, is_set |-> shutdown_requested]
    /\ UNCHANGED <<shutdown_requested, shutdown_logged, analyzeVars, fileVars, sigVars, cap, gateVars, taskVars, mainVars, apiVars>>

InitApi ==
    /\ shutdown_requested = FALSE
    /\ cap \in {c \in [Gates -> 1..MaxCap] : c["io_sem"] = MaxCap}
    /\ value = cap
    /\ waiters = [g \in Gates |-> <<>>]
    /\ _task = [o \in Objects |-> 0]
    /\ _stack = [o \in Objects |-> 0]
    /\ pc = [x \in Handles |-> "none"]
    /\ must_cancel = [x \in Handles |-> FALSE]
    /\ bodyResult = [x \in Handles |-> "none"]
    /\ log = [x \in Handles |-> "none"]
    /\ done = [x \in Handles |-> "pending"]
    /\ rows = [x \in Handles |-> 0]
    /\ dbheld = [x \in Handles |-> FALSE]
    /\ committed = [o \in Objects |-> 0]
    /\ outer = [f \in Folders |-> "none"]
    /\ mainpc = "api"
    /\ mainResult = "none"
    /\ mainOuter = "none"
    /\ wakeup = "absent"
    /\ calls = [o \in Objects |-> [start |-> 0, wait |-> 0, late |-> 0]]
    /\ waitRet = [o \in Objects |-> {}]
    /\ seenOutcome = [o \in Objects |-> {}]
    /\ shutdown_logged = 0
    /\ sleeper = "idle"
    /\ sleepRet = [value |-> FALSE, is_set |-> FALSE]
    /\ lacking = 1..NPairs
    /\ string_pairs = <<>>
    /\ pair = 0
    /\ extra = 0
    /\ response = 0
    /\ stored = {}
    /\ keys = KeysRead({1})
    /\ lines = [o \in Objects |-> 0]
    /\ SignalsBound

LangStep(x) ==
    \/ LangStart(x) \/ LangSemAcquired(x) \/ LangRead(x) \/ LangDbAcquired(x)
    \/ LangConnected(x) \/ LangInserted(x) \/ LangCommitted(x) \/ LangClosed(x)

NextApi ==
    \/ \E o \in ApiObjs : ApiStart(o) \/ ApiWait(o) \/ ApiAwait(o)
    \/ \E x \in Handles : LangStep(x)
    \/ ApiSleepEnter \/ ApiSleepReturn
    \/ shutdown

SpecApi == InitApi /\ [][NextApi]_vars

\* ------------------------ AnalyzeTranslations (analyze_translations.py)
\* The analysis pipeline is Base.async_main with another sub_main; it starts
\* no Task, so the main task is the only user of db_sem.  The positions of
\* the main task are named after the await in flight: rv_ db_refresh_views,
\* ps_ _pick_strings, pe_ _pick_extra, sg_ _process_suggestion.
aFrame == <<shutdown_requested, shutdown_logged, sleepVars, fileVars, sigVars, cap, _task, _stack, pc, bodyResult,
            log, done, rows, dbheld, committed, outer, mainOuter, apiVars>>

\* the try block of async_main ends with res, after the exit stack released
\* the `held` permits of db_sem
AEnd(held, res) ==
    /\ value' = [value EXCEPT !["db_sem"] = @ + held]
    /\ UNCHANGED waiters
    /\ MainFinish(res)

\* the main task releases the `held` permits and suspends at `to`; db_conn
\* takes a permit on the way iff `takes` (no other task uses db_sem here, so
\* the acquire of base.py 62 does not suspend)
AGoto(held, takes, to) ==
    /\ mainpc' = to
    /\ value' = [value EXCEPT !["db_sem"] = @ + held - (IF takes THEN 1 ELSE 0)]
    /\ UNCHANGED <<waiters, mainResult, must_cancel, wakeup>>

\* the rows the picker statement returns (39-124): at most `limit` pairs
\* that lack a suggestion, in their order
RECURSIVE Pick(_, _)
Pick(S, limit) ==
    IF S = {} \/ limit = 0 THEN <<>>
    ELSE LET m == CHOOSE e \in S : \A o \in S : e <= o
         IN <<m>> \o Pick(S \ {m}, limit - 1)

\* the test of the while loop (402), then _pick_strings: db_refresh_views
\* checks shutdown (base.py 79) and calls db_conn (84)
while_head(held) ==
    IF shutdown_requested THEN AEnd(held, "return")
    ELSE AGoto(held, TRUE, "rv_connecting")

\* the for loop reaches the pair at index i (408-411): past the batch it goes
\* back to the while test; with the event set it breaks, and the while test
\* ends sub_main; otherwise _pick_extra checks shutdown (293) and calls db_conn
for_head(held, i) ==
    /\ pair' = i
    /\ IF i > Len(string_pairs') THEN while_head(held)
       ELSE IF shutdown_requested THEN AEnd(held, "return")
       ELSE AGoto(held, TRUE, "pe_connecting")

\* _init_openai (28-36): the list of models arrived, or the request failed
AnalyzeInitOpenai ==
    /\ mainpc = "init_openai"
    /\ \/ AEnd(0, "Exception")
       \/ while_head(0)
    /\ UNCHANGED <<aFrame, analyzeVars>>

\* Helper.db_refresh_views (base.py 78-90): connection, REFRESH, commit, close;
\* then _pick_strings checks shutdown (128) and calls db_conn (133)
AnalyzeRefreshViews ==
    /\ CASE mainpc = "rv_connecting" -> AEnd(1, "Exception") \/ AGoto(0, FALSE, "rv_execute")
         [] mainpc = "rv_execute" -> AGoto(0, FALSE, "rv_failing") \/ AGoto(0, FALSE, "rv_commit")
         [] mainpc = "rv_commit" -> AGoto(0, FALSE, "rv_failing") \/ AGoto(0, FALSE, "rv_closing")
         [] mainpc = "rv_failing" -> AEnd(1, "Exception")
         [] mainpc = "rv_closing" ->
              IF check_shutdown THEN AEnd(1, "Shutdown") ELSE AGoto(1, TRUE, "ps_connecting")
         [] OTHER -> FALSE
    /\ UNCHANGED <<aFrame, analyzeVars>>

\* _pick_strings (126-137): connection, the picker query, close; sub_main
\* breaks on an empty batch (404-406) or enters the for loop
AnalyzePickStrings ==
    /\ CASE mainpc = "ps_connecting" ->
              /\ AEnd(1, "Exception") \/ AGoto(0, FALSE, "ps_execute")
              /\ UNCHANGED analyzeVars
         [] mainpc = "ps_execute" ->
              \/ AGoto(0, FALSE, "ps_failing") /\ UNCHANGED analyzeVars
              \/ /\ AGoto(0, FALSE, "ps_closing")
                 /\ string_pairs' = Pick(lacking, PickLimit)
                 /\ UNCHANGED <<lacking, pair, extra, response, stored>>
         [] mainpc = "ps_failing" -> AEnd(1, "Exception") /\ UNCHANGED analyzeVars
         [] mainpc = "ps_closing" ->
              /\ UNCHANGED <<lacking, string_pairs, extra, response, stored>>
              /\ IF Len(string_pairs) < 1 THEN AEnd(1, "return") /\ UNCHANGED pair
                 ELSE for_head(1, 1)
         [] OTHER -> FALSE
    /\ UNCHANGED aFrame

\* _pick_extra (291-302): connection, query, close; sub_main tests the event
\* (412) and _complete sends the request (326)
AnalyzePickExtra ==
    /\ CASE mainpc = "pe_connecting" ->
              /\ AEnd(1, "Exception") \/ AGoto(0, FALSE, "pe_execute")
              /\ UNCHANGED analyzeVars
         [] mainpc = "pe_execute" ->
              \/ AGoto(0, FALSE, "pe_failing") /\ UNCHANGED analyzeVars
              \/ /\ AGoto(0, FALSE, "pe_closing")
                 /\ extra' = string_pairs[pair]
                 /\ UNCHANGED <<lacking, string_pairs, pair, response, stored>>
         [] mainpc = "pe_failing" -> AEnd(1, "Exception") /\ UNCHANGED analyzeVars
         [] mainpc = "pe_closing" ->
              /\ IF shutdown_requested THEN AEnd(1, "return") ELSE AGoto(1, FALSE, "complete")
              /\ UNCHANGED analyzeVars
         [] OTHER -> FALSE
    /\ UNCHANGED aFrame

\* _complete (304-334): the completion arrived or the request failed; then
\* _process_suggestion parses it (336-376) and calls db_conn (379)
AnalyzeComplete ==
    /\ mainpc = "complete"
    /\ \/ AEnd(0, "Exception") /\ UNCHANGED analyzeVars
       \/ /\ AGoto(0, TRUE, "sg_connecting")
          /\ response' = string_pairs[pair]
          /\ UNCHANGED <<lacking, string_pairs, pair, extra, stored>>
    /\ UNCHANGED aFrame

\* _process_suggestion (378-396): connection, shutdown check (380), INSERT
\* (394), commit (395), close; then the for loop goes on
AnalyzeProcessSuggestion ==
    /\ CASE mainpc = "sg_connecting" ->
              /\ \/ AEnd(1, "Exception")
                 \/ IF check_shutdown THEN AGoto(0, FALSE, "sg_shutdown")
                    ELSE AGoto(0, FALSE, "sg_insert")
              /\ UNCHANGED analyzeVars
         [] mainpc = "sg_insert" ->
              /\ AGoto(0, FALSE, "sg_failing") \/ AGoto(0, FALSE, "sg_commit")
              /\ UNCHANGED analyzeVars
         [] mainpc = "sg_commit" ->
              \/ AGoto(0, FALSE, "sg_failing") /\ UNCHANGED analyzeVars
              \/ /\ AGoto(0, FALSE, "sg_closing")
                 /\ stored' = stored \cup {[pair |-> string_pairs[pair], response |-> response]}
                 /\ lacking' = lacking \ {string_pairs[pair]}
                 /\ UNCHANGED <<string_pairs, pair, extra, response>>
         [] mainpc = "sg_failing" -> AEnd(1, "Exception") /\ UNCHANGED analyzeVars
         [] mainpc = "sg_shutdown" -> AEnd(1, "Shutdown") /\ UNCHANGED analyzeVars
         [] mainpc = "sg_closing" ->
              /\ UNCHANGED <<lacking, string_pairs, extra, response, stored>>
              /\ for_head(1, pair + 1)
         [] OTHER -> FALSE
    /\ UNCHANGED aFrame

\* the state after _db_prepare, when async_main calls sub_main (base.py 364)
InitAnalyze ==
    /\ shutdown_requested = FALSE
    /\ cap \in {c \in [Gates -> 1..MaxCap] : c["io_sem"] = MaxCap}
    /\ value = cap
    /\ waiters = [g \in Gates |-> <<>>]
    /\ _task = [o \in Objects |-> 0]
    /\ _stack = [o \in Objects |-> 0]
    /\ pc = [x \in Handles |-> "none"]
    /\ must_cancel = [x \in Handles |-> FALSE]
    /\ bodyResult = [x \in Handles |-> "none"]
    /\ log = [x \in Handles |-> "none"]
    /\ done = [x \in Handles |-> "pending"]
    /\ rows = [x \in Handles |-> 0]
    /\ dbheld = [x \in Handles |-> FALSE]
    /\ committed = [o \in Objects |-> 0]
    /\ outer = [f \in Folders |-> "none"]
    /\ mainpc = "init_openai"
    /\ mainResult = "none"
    /\ mainOuter = "none"
    /\ wakeup \in {"absent", "sleeping"}
    /\ calls = [o \in Objects |-> [start |-> 0, wait |-> 0, late |-> 0]]
    /\ waitRet = [o \in Objects |-> {}]
    /\ seenOutcome = [o \in Objects |-> {}]
    /\ shutdown_logged = 0
    /\ sleeper = "idle"
    /\ sleepRet = [value |-> FALSE, is_set |-> FALSE]
    /\ lacking = 1..NPairs
    /\ string_pairs = <<>>
    /\ pair = 0
    /\ extra = 0
    /\ response = 0
    /\ stored = {}
    /\ keys = KeysRead({})
    /\ lines = [o \in Objects |-> 0]
    /\ SignalsBound

NextAnalyze ==
    \/ AnalyzeInitOpenai \/ AnalyzeRefreshViews \/ AnalyzePickStrings
    \/ AnalyzePickExtra \/ AnalyzeComplete \/ AnalyzeProcessSuggestion
    \/ MainCleanupWake
    \/ WakeupCancelled
    \/ shutdown

SpecAnalyze == InitAnalyze /\ [][NextAnalyze]_vars

\* ------------------------------------------------- the class gate alone
\* A caller starts NGateTasks SyncLangTasks in one synchronous loop, as
\* find_languages does for a folder, and lets them run; nothing cancels them.
GateHandles == {<<o, 1>> : o \in GateObjs}

InitGate ==
    /\ shutdown_requested = FALSE
    /\ cap \in {c \in [Gates -> 1..MaxCap] : c["io_sem"] = MaxCap}
    /\ value = cap
    /\ waiters = [g \in Gates |-> <<>>]
    /\ _task = [o \in Objects |-> IF o \in GateObjs THEN 1 ELSE 0]
    /\ _stack = [o \in Objects |-> 0]
    /\ pc = [x \in Handles |-> IF x \in GateHandles THEN "new" ELSE "none"]
    /\ must_cancel = [x \in Handles |-> FALSE]
    /\ bodyResult = [x \in Handles |-> "none"]
    /\ log = [x \in Handles |-> "none"]
    /\ done = [x \in Handles |-> "pending"]
    /\ rows = [x \in Handles |-> 0]
    /\ dbheld = [x \in Handles |-> FALSE]
    /\ committed = [o \in Objects |-> 0]
    /\ outer = [f \in Folders |-> "none"]
    /\ mainpc = "api"
    /\ mainResult = "none"
    /\ mainOuter = "none"
    /\ wakeup = "absent"
    /\ calls = [o \in Objects |-> [start |-> 0, wait |-> 0, late |-> 0]]
    /\ waitRet = [o \in Objects |-> {}]
    /\ seenOutcome = [o \in Objects |-> {}]
    /\ shutdown_logged = 0
    /\ sleeper = "idle"
    /\ sleepRet = [value |-> FALSE, is_set |-> FALSE]
    /\ lacking = 1..NPairs
    /\ string_pairs = <<>>
    /\ pair = 0
    /\ extra = 0
    /\ response = 0
    /\ stored = {}
    /\ keys = KeysRead({0})
    /\ lines = [o \in Objects |-> 0]
    /\ SignalsBound

NextGate ==
    \/ \E x \in GateHandles : LangStep(x)
    \/ shutdown

SpecGate == InitGate /\ [][NextGate]_vars /\ \A x \in GateHandles : WF_vars(LangStep(x))

\* ------------------------------------------------- the signal binding alone
\* Base.main has built the object and calls _async_prepare (380): the
\* platform and the handlers installed before are the environment's; after
\* the binding signals arrive in any order.
InitSignals ==
    /\ shutdown_requested = FALSE
    /\ cap = [g \in Gates |-> MaxCap]
    /\ value = cap
    /\ waiters = [g \in Gates |-> <<>>]
    /\ _task = [o \in Objects |-> 0]
    /\ _stack = [o \in Objects |-> 0]
    /\ pc = [x \in Handles |-> "none"]
    /\ must_cancel = [x \in Handles |-> FALSE]
    /\ bodyResult = [x \in Handles |-> "none"]
    /\ log = [x \in Handles |-> "none"]
    /\ done = [x \in Handles |-> "pending"]
    /\ rows = [x \in Handles |-> 0]
    /\ dbheld = [x \in Handles |-> FALSE]
    /\ committed = [o \in Objects |-> 0]
    /\ outer = [f \in Folders |-> "none"]
    /\ mainpc = "prepare"
    /\ mainResult = "none"
    /\ mainOuter = "none"
    /\ wakeup = "absent"
    /\ calls = [o \in Objects |-> [start |-> 0, wait |-> 0, late |-> 0]]
    /\ waitRet = [o \in Objects |-> {}]
    /\ seenOutcome = [o \in Objects |-> {}]
    /\ shutdown_logged = 0
    /\ sleeper = "idle"
    /\ sleepRet = [value |-> FALSE, is_set |-> FALSE]
    /\ lacking = 1..NPairs
    /\ string_pairs = <<>>
    /\ pair = 0
    /\ extra = 0
    /\ response = 0
    /\ stored = {}
    /\ keys = KeysRead({})
    /\ lines = [o \in Objects |-> 0]
    /\ platform \in {"unix", "windows"}
    /\ previous \in [Signals -> OldHandlers]
    /\ handlers = Unbound(previous)
    /\ bound = "unbound"
    /\ last_signal = NoSignal

NextSignals ==
    \/ _signals_bind
    \/ \E sig \in Signals : Deliver(sig)

SpecSignals == InitSignals /\ [][NextSignals]_vars

\* ================================================================== claims
RECURSIVE Sum(_, _)
Sum(f, S) == IF S = {} THEN 0 ELSE LET e == CHOOSE e \in S : TRUE IN f[e] + Sum(f, S \ {e})

\* permits of g held through an exit stack: Task._stack of every object, the
\* local stack of every store_lines, the stack of refresh_views
Held(g) ==
    CASE g = "SEM" -> Sum(_stack, {o \in Objects : IsLang(o)})
      [] g = "db_sem" -> Cardinality({x \in Handles : dbheld[x]}) + (IF MainHoldsDb THEN 1 ELSE 0)
      [] OTHER -> 0

\* the acquisitions of g a step makes
Gained(g) ==
    CASE g = "SEM" -> {x \in Handles : IsLang(Obj(x)) /\ pc[x] \in {"new", "wait_sem"} /\ pc'[x] = "read"}
      [] g = "db_sem" -> {x \in Handles : ~dbheld[x] /\ dbheld'[x]}
      [] OTHER -> {}

\* C1: in a group whose children are awaited with gather, when a child has
\* failed every other child is terminal before the group's own task is.
\* (A folder task that raised and has children raised out of gather.)
C1_GatherAwaitsAllChildren ==
    \A f \in Folders :
        (/\ Started(Folder(f))
         /\ done[Cur(Folder(f))] = "raised"
         /\ \E c \in Children(f) : Started(c) /\ done[Cur(c)] = "raised")
        => \A c \in Children(f) : Started(c) => Terminal(Cur(c))

\* C2: start() is idempotent: however often it is called on a task, one
\* execution of the body is scheduled and _task stays the first handle.
C2_StartIdempotent ==
    \A o \in ApiObjs : Cardinality({n \in 1..MaxStarts : Created(<<o, n>>)}) <= 1

\* C3: wait() is stable: every wait() call returns the handle in _task and
\* schedules the body only if there was none; a handle that is done keeps its
\* outcome and never runs again; so over any number of wait() calls, also
\* after the task ended, all return one handle, their awaiters observe one
\* outcome and the body is scheduled once.
C3_WaitStable ==
    /\ [][\A o \in ApiObjs : calls'[o].wait # calls[o].wait =>
            /\ waitRet'[o] = waitRet[o] \cup {_task'[o]}
            /\ IF _task[o] # 0 THEN _task'[o] = _task[o] /\ pc' = pc
               ELSE _task'[o] = 1 /\ pc' = [pc EXCEPT ![<<o, 1>>] = "new"]]_vars
    /\ [][\A x \in Handles : Terminal(x) =>
            pc'[x] = "done" /\ done'[x] = done[x] /\ bodyResult'[x] = bodyResult[x]]_vars
    /\ [](\A o \in ApiObjs : calls[o].start = 0 =>
            /\ Cardinality(waitRet[o]) <= 1
            /\ Cardinality(seenOutcome[o]) <= 1
            /\ Cardinality({n \in 1..MaxStarts : Created(<<o, n>>)}) <= 1)

\* C3 witness: wait() was called three times, twice of them after the task
\* had ended, and the outcome was observed
C3_Witness ==
    \E o \in ApiObjs :
        /\ calls[o].wait >= 3 /\ calls[o].late >= 2 /\ calls[o].start = 0
        /\ Terminal(<<o, 1>>) /\ seenOutcome[o] = {"raised"}

\* C4: for every gate, in every state the permits held are at most its
\* capacity, and a step gives a task a permit only if one was free: a task
\* that finds none free is suspended among the waiters.
C4_HeldWithinCapacity ==
    /\ [](\A g \in Gates : Held(g) <= cap[g])
    /\ [][\A g \in Gates : Cardinality(Gained(g)) <= value[g]]_vars
    /\ [](\A x \in Handles :
            /\ pc[x] = "wait_sem" => x \in {waiters["SEM"][k] : k \in 1..Len(waiters["SEM"])}
            /\ pc[x] = "wait_db" => (~dbheld[x] /\ x \in {waiters["db_sem"][k] : k \in 1..Len(waiters["db_sem"])}))

\* C4 witness: every permit of the class gate is held while a task waits
C4_Witness ==
    /\ Held("SEM") = cap["SEM"] /\ cap["SEM"] = 1 /\ Len(waiters["SEM"]) = 1
    /\ \E x \in Handles : pc[x] = "wait_sem"

\* C5: permits are conserved (none released twice, none lost), and once the
\* main task has exited every gate has no permit held, its full capacity
\* available and no waiter.
C5_PermitsReleased ==
    /\ \A g \in Gates : value[g] + Held(g) = cap[g]
    /\ mainpc = "exited" =>
          \A g \in Gates : Held(g) = 0 /\ value[g] = cap[g] /\ waiters[g] = <<>>

\* C5 witness: the run is over, after a task was cancelled, one failed, and
\* one was shut down
C5_Witness ==
    /\ mainpc = "exited"
    /\ \E x \in Handles : IsLang(Obj(x)) /\ bodyResult[x] = "CancelledError"
    /\ \E x \in Handles : IsLang(Obj(x)) /\ bodyResult[x] = "Exception"
    /\ \E x \in Handles : bodyResult[x] = "Shutdown"

C7_ShutdownMonotonic ==
    [][shutdown_requested => (shutdown_requested' /\ check_shutdown')]_vars

\* C7 witness: the event is set and a task has ended on it
C7_Witness ==
    /\ shutdown_requested /\ mainpc = "exited"
    /\ \E x \in Handles : bodyResult[x] = "Shutdown"

\* C8: _main_outer gives every body result one outcome: a return completes
\* the task silently; CancelledError and Shutdown are logged as warnings and
\* the task returns; any other exception is logged as an error and re-raised,
\* and it is that raise (and nothing else) a gathering parent receives.
C8_OutcomeClassification ==
    /\ \A x \in Handles : Terminal(x) =>
          CASE bodyResult[x] = "return" -> done[x] = "returned" /\ log[x] = "none"
            [] bodyResult[x] = "CancelledError" -> done[x] = "returned" /\ log[x] = "warning_cancelled"
            [] bodyResult[x] = "Shutdown" -> done[x] = "returned" /\ log[x] = "warning_shutdown"
            [] bodyResult[x] = "Exception" -> done[x] = "raised" /\ log[x] = "error_failed"
            [] OTHER -> done[x] = "cancelled" /\ log[x] = "none"
    /\ \A x \in Handles : ~Terminal(x) => log[x] = "none"
    /\ \A f \in Folders :
          /\ outer[f] = "exc" => \E c \in Children(f) : Started(c) /\ done[Cur(c)] = "raised"
          /\ (Started(Folder(f)) /\ pc[Cur(Folder(f))] = "gather"
                /\ \E c \in Children(f) : Started(c) /\ done[Cur(c)] = "raised")
             => outer[f] \in {"exc", "cancelled"}

\* C8 witness: a parent received a child's exception, another task was
\* cancelled and a third returned
C8_Witness ==
    /\ \E f \in Folders : outer[f] = "exc" /\ done[Cur(Folder(f))] = "raised"
    /\ \E x \in Handles : bodyResult[x] = "CancelledError"
    /\ \E x \in Handles : bodyResult[x] = "return"

\* C9: when a child started by a group has failed, the group's task ends
\* failed and the failure reaches the root: async_main raises.
C9_ChildFailureReachesRoot ==
    mainpc = "exited" =>
        \A o \in LangObjs :
            (Started(o) /\ done[Cur(o)] = "raised")
            => (done[Cur(Folder(FolderOf(o)))] = "raised" /\ async_main_raises)

\* C10: when cleanup_loop has returned no task but the main task is pending.
C10_DrainComplete ==
    mainpc = "exited" => (Pending = {} /\ ~WakeupLive)

\* C10 witness: the drain ended after cancelling a language task its folder
\* had left behind and the signal wake-up task
C10_Witness ==
    /\ mainpc = "exited" /\ wakeup = "cancelled"
    /\ \E f \in Folders : \E c \in Children(f) :
          /\ Started(c) /\ bodyResult[Cur(c)] = "CancelledError"
          /\ bodyResult[Cur(Folder(f))] = "Shutdown"

\* C11: however the try block of async_main ended, the main task exits only
\* in a step of cleanup_loop that found no other task pending; the root has
\* ended by then, and once it has ended the main task is in the drain.
C11_DrainBeforeExit ==
    /\ [][(mainpc # "exited" /\ mainpc' = "exited") =>
            (Pending = {} /\ ~WakeupLive /\ mainResult' \in BodyResults)]_vars
    /\ [](mainResult # "none" => mainpc \in {"refresh_closing", "cleanup_wait", "exited"})
    /\ [](mainpc \in {"cleanup_wait", "exited"} => mainResult \in BodyResults)

\* C11 witness: the root failed while a task was still running; the drain
\* cancelled that task before the exit
C11_Witness ==
    /\ mainpc = "exited" /\ mainResult = "Exception"
    /\ \E x \in Handles : bodyResult[x] = "CancelledError"

\* C12: the exit status is non-zero exactly when the try block of async_main
\* ended with an ordinary exception (re-raised after the drain); a return, a
\* Shutdown and a cancellation give status 0.
C12_ExitStatus ==
    mainpc = "exited" =>
        /\ mainResult = "Exception" => (exit_status # 0 /\ async_main_raises /\ Pending = {})
        /\ mainResult \in {"return", "Shutdown", "CancelledError"} => (exit_status = 0 /\ ~async_main_raises)

\* C12 witness: a folder task failed, gather re-raised it in sub_main and the
\* process ended with status 1
C12_Witness ==
    /\ mainpc = "exited" /\ mainOuter = "exc" /\ exit_status = 1
    /\ \E f \in Folders : done[Cur(Folder(f))] = "raised"

\* C13: every child object gets at most one asyncio task: start() in
\* find_languages and wait() in gather together schedule its body once.
C13_ExactlyOnceSpawn ==
    \A o \in Objects :
        /\ _task[o] <= 1
        /\ Cardinality({n \in 1..MaxStarts : Created(<<o, n>>)}) <= 1

\* C13 witness: both gathers have called wait(): on the folder tasks, and on
\* language tasks that find_languages had started
C13_Witness ==
    /\ mainpc = "gather"
    /\ pc[Cur(Folder(1))] = "gather"
    /\ \A c \in Children(1) : Started(c) /\ Live(Cur(c))

\* C14: sleep_or_shutdown returns whether the event is set when it returns.
C14_SleepReturnsFlag ==
    sleeper = "returned" => sleepRet.value = sleepRet.is_set

\* C15: over any sequence of shutdown() calls the reason is logged once.
C15_ShutdownLogsOnce ==
    shutdown_logged <= 1

\* C16: without shutdown every task waiting for the class gate gets a
\* permit, every task started ends, and a permit goes to the waiter that has
\* waited longest.
C16_GateLiveness ==
    /\ \A x \in GateHandles : (pc[x] = "wait_sem") ~> (pc[x] = "read" \/ shutdown_requested)
    /\ \A x \in GateHandles : Live(x) ~> Terminal(x)
    /\ [][\A x \in GateHandles : (pc[x] = "wait_sem" /\ pc'[x] = "read") =>
            x = Head(waiters["SEM"])]_vars

\* C16 witness: three tasks on a gate of capacity one: one holds the permit,
\* two wait, and no shutdown was requested
C16_Witness ==
    /\ cap["SEM"] = 1 /\ Held("SEM") = 1 /\ Len(waiters["SEM"]) = 2
    /\ ~shutdown_requested

C19_RefreshOnlyWithoutShutdown ==
    [][(mainpc # "refresh_execute" /\ mainpc' = "refresh_execute") => ~shutdown_requested]_vars

\* C20: each pass of the drain cancels every task it found pending, and the
\* drain ends: once the try block of async_main has ended the main task exits.
C20_DrainTerminates ==
    /\ (mainResult # "none") ~> (mainpc = "exited")
    /\ [][(mainpc # "cleanup_wait" /\ mainpc' = "cleanup_wait") =>
            (\A x \in Handles : Live(x) => must_cancel'[x]) /\ wakeup' # "sleeping"]_vars

\* C20 witness: the drain ended after a task was cancelled before its first
\* step and the wake-up task in its sleep
C20_Witness ==
    /\ mainpc = "exited" /\ wakeup = "cancelled"
    /\ \E x \in Handles : done[x] = "cancelled"

\* C17: no INSERT and no commit is begun while the shutdown event is set, in
\* store_lines and in _process_suggestion.
C17_NoWriteAfterShutdown ==
    [][shutdown_requested =>
          /\ (mainpc' \in {"sg_insert", "sg_commit"} => mainpc' = mainpc)
          /\ \A x \in Handles : pc'[x] \in {"insert", "commit"} => (pc'[x] = pc[x] /\ rows'[x] = rows[x])]_vars

\* the asyncio tasks with a local file operation in flight: the read of
\* keys.txt (81-83), scandir (92), isfile (99), the read of a language file
\* (35-37)
FileOps == {x \in Handles : pc[x] \in {"read_keys", "scandir", "isfile", "read"}}

\* the database connections open or being opened: those of store_lines, of
\* the main task inside db_conn, and those _db_version and _db_load_meta take
\* from the engine (base.py 302, 318)
DbConnections ==
    Cardinality({x \in Handles : pc[x] \in {"connecting", "insert", "commit", "closing"}})
    + (IF MainHoldsDb \/ mainpc \in {"db_version", "db_load_meta"} THEN 1 ELSE 0)

\* C21: no task bypasses a gate: the file operations in flight are covered by
\* held permits of io_sem and the database connections in use by held permits
\* of db_sem.
C21_NoGateBypass ==
    /\ Cardinality(FileOps) <= Held("io_sem")
    /\ DbConnections <= Held("db_sem")

\* the transactions open on a connection: begun by the first statement
\* (store_lines 55, refresh_views 160, db_refresh_views 88,
\* _process_suggestion 394) and ended by the close of the connection
OpenTransactions ==
    Cardinality({x \in Handles : pc[x] \in {"insert", "commit", "closing"}})
    + (IF mainpc \in {"refresh_execute", "refresh_commit", "refresh_closing",
                      "rv_execute", "rv_commit", "rv_failing", "rv_closing",
                      "sg_insert", "sg_commit", "sg_failing", "sg_closing"}
       THEN 1 ELSE 0)

\* C22: a task writes on a connection only while it holds the db_sem permit
\* db_conn took for it; the permit is released by the step in which the
\* connection's close (which ends the transaction) returns, or in which the
\* connection failed to open; so the open transactions are at most the held
\* permits of db_sem, which are at most its capacity.
C22_TransactionInsidePermit ==
    /\ [](\A x \in Handles :
            /\ pc[x] \in {"connecting", "insert", "commit", "closing"} => dbheld[x]
            /\ rows[x] > 0 => pc[x] \in {"insert", "commit"})
    /\ [](OpenTransactions <= Held("db_sem") /\ Held("db_sem") <= cap["db_sem"])
    /\ [][\A x \in Handles : (dbheld[x] /\ ~dbheld'[x]) =>
            (pc[x] \in {"connecting", "closing"} /\ pc'[x] = "done" /\ rows'[x] = 0)]_vars
    /\ [][(MainHoldsDb /\ ~MainHoldsDb') =>
            mainpc \notin {"refresh_execute", "refresh_commit", "rv_execute", "rv_commit",
                           "sg_insert", "sg_commit"}]_vars

\* C22 witness: a transaction aborted by the shutdown is being rolled back by
\* the close of its connection, its permit still held, while another task
\* waits for the only permit of db_sem
C22_Witness ==
    /\ cap["db_sem"] = 1
    /\ \E x, y \in Handles :
          /\ pc[x] = "closing" /\ bodyResult[x] = "Shutdown" /\ dbheld[x]
          /\ pc[y] = "wait_db"

\* C23: after _signals_bind the delivery of a termination signal requests
\* shutdown; on the fallback path each of SIGINT, SIGTERM and SIGBREAK has a
\* handler that requests shutdown and then calls the handler that signal had
\* before.
C23_SignalsRequestShutdown ==
    /\ bound = "fallback" =>
          \A sig \in Signals : handlers[sig] = <<"_handle", previous[sig]>>
    /\ (bound # "unbound" /\ last_signal.signum # "None") =>
          /\ last_signal.shutdown
          /\ last_signal.handler =
                (IF bound = "fallback" /\ callable(previous[last_signal.signum])
                 THEN previous[last_signal.signum] ELSE "None")

\* g has a free permit and no task that is not cancelled waits for it
FreeFor(g) == value[g] > 0 /\ \A k \in 1..Len(waiters[g]) : Cancelling(waiters[g][k])

\* C24: the gates count their permits apart: a task is suspended in the
\* acquire of a gate only if that gate itself has no free permit (or a waiter
\* before it), whatever the other gates hold; the first waiter of a gate with
\* a free permit can take it; a step that takes a permit of one gate takes
\* none of another; and each gate's free and held permits add up to its own
\* capacity.
C24_SeparatePools ==
    /\ [][\A x \in Handles :
            /\ (pc[x] = "new" /\ pc'[x] = "wait_sem") => ~FreeFor("SEM")
            /\ (pc[x] = "read" /\ pc'[x] = "wait_db") => ~FreeFor("db_sem")]_vars
    /\ [](\A x \in Handles :
            /\ (pc[x] = "wait_sem" /\ value["SEM"] > 0 /\ FirstLive("SEM") = x)
                  => ENABLED LangSemAcquired(x)
            /\ (pc[x] = "wait_db" /\ value["db_sem"] > 0 /\ FirstLive("db_sem") = x)
                  => ENABLED LangDbAcquired(x))
    /\ [][\A g \in Gates : value'[g] < value[g] =>
            (value'[g] = value[g] - 1 /\ \A h \in Gates \ {g} : value'[h] = value[h])]_vars
    /\ [](\A g \in Gates : value[g] = cap[g] - Held(g))

\* C24 witness: the only permit of db_sem is held by a task in its
\* transaction, and another task holds a permit of the class gate and reads
\* its file
C24_Witness ==
    /\ cap["db_sem"] = 1 /\ value["db_sem"] = 0
    /\ \E x, y \in Handles :
          /\ dbheld[x] /\ pc[x] = "insert"
          /\ pc[y] = "read" /\ _stack[Obj(y)] = 1

\* C25: the rows of a language file become durable all together or not at
\* all: in every state the durable rows of a file are none or all of its
\* lines, and they become durable only in the step that ends a commit begun
\* after every INSERT of the file was executed in that transaction.
C25_AllOrNothing ==
    /\ [](\A o \in LangObjs : committed[o] = 0 \/ (committed[o] = NRows /\ lines[o] = NRows))
    /\ [][\A o \in LangObjs : committed'[o] # committed[o] =>
            /\ pc[Cur(o)] = "commit" /\ rows[Cur(o)] = NRows
            /\ committed[o] = 0 /\ committed'[o] = NRows]_vars

\* C25 witness: one file's rows are durable; the transaction of another was
\* aborted by the shutdown after its first INSERT and left nothing durable
C25_Witness ==
    \E x, y \in Handles :
        /\ committed[Obj(y)] = NRows
        /\ pc[x] = "closing" /\ bodyResult[x] = "Shutdown"
        /\ lines[Obj(x)] = NRows /\ committed[Obj(x)] = 0

\* the main task is inside refresh_views, past its shutdown check (152)
InRefresh == mainpc \in {"refresh_wait_db", "refresh_connecting", "refresh_execute",
                         "refresh_commit", "refresh_closing"}

\* C26: while the main task is in refresh_views every folder task was started
\* and every task ever started has ended by returning from its body, none by
\* an exception, a shutdown or a cancellation; refresh_views is entered only
\* from the gather of the folder tasks.
C26_RefreshAfterCleanSync ==
    /\ [](InRefresh =>
            /\ \A f \in Folders : Started(Folder(f))
            /\ \A x \in Handles : Created(x) =>
                  (Terminal(x) /\ done[x] = "returned" /\ bodyResult[x] = "return"))
    /\ [][(~InRefresh /\ InRefresh') => (mainpc = "gather" /\ ~shutdown_requested)]_vars

\* C26 witness: the REFRESH statement runs after every language file of the
\* run was committed
C26_Witness ==
    /\ mainpc = "refresh_execute"
    /\ \A o \in LangObjs : Started(o) /\ committed[o] = NRows

\* x is suspended in the acquire of a gate that cannot serve it now
Blocked(x) ==
    /\ Live(x) /\ ~must_cancel[x]
    /\ \/ pc[x] = "wait_sem" /\ ~(value["SEM"] > 0 /\ FirstLive("SEM") = x)
       \/ pc[x] = "wait_db" /\ ~(value["db_sem"] > 0 /\ FirstLive("db_sem") = x)

\* C27: taking db_sem inside the class gate cannot deadlock: while language
\* tasks are unfinished one of them is not blocked on a gate, a task holds
\* db_sem only inside its class gate, and every task started ends.
C27_NoGateDeadlock ==
    /\ [](LET L == {x \in Handles : Live(x) /\ IsLang(Obj(x))}
          IN L # {} => \E x \in L : ~Blocked(x))
    /\ [](\A x \in Handles : (dbheld[x] \/ pc[x] = "wait_db") => _stack[Obj(x)] >= 1)
    /\ \A x \in GateHandles : (Live(x) /\ _stack[Obj(x)] = 1) ~> (Terminal(x) /\ _stack[Obj(x)] = 0)

\* C27 witness: no shutdown; one task holds both gates, another holds its
\* class gate permit and waits for the only permit of db_sem
C27_Witness ==
    /\ ~shutdown_requested /\ cap["db_sem"] = 1
    /\ \E x, y \in GateHandles :
          /\ dbheld[x] /\ _stack[Obj(x)] = 1
          /\ pc[y] = "wait_db" /\ _stack[Obj(y)] = 1 /\ Blocked(y)

\* C28: a language task whose file has another number of lines than its
\* folder has keys ends in the step that finished the read: failed (logged
\* as an error and re-raised), with its class gate permit released, without
\* having asked for db_sem or executed an INSERT; a task that reaches db_conn
\* has as many lines as keys; and a language task is started only after its
\* folder's keys.txt was read to the end, the key list not changing afterwards.
C28_MismatchFailsBeforeDb ==
    /\ [][\A x \in Handles :
            (pc[x] = "read" /\ lines'[Obj(x)] # lines[Obj(x)]
               /\ lines'[Obj(x)] # keys[FolderOf(Obj(x))]) =>
            /\ pc'[x] = "done" /\ done'[x] = "raised"
            /\ bodyResult'[x] = "Exception" /\ log'[x] = "error_failed"
            /\ ~dbheld'[x] /\ rows'[x] = 0 /\ committed'[Obj(x)] = committed[Obj(x)]
            /\ _stack'[Obj(x)] = 0 /\ value'["SEM"] = value["SEM"] + 1
            /\ value'["db_sem"] = value["db_sem"] /\ waiters'["db_sem"] = waiters["db_sem"]]_vars
    /\ [](\A x \in Handles :
            (pc[x] \in {"wait_db", "connecting", "insert", "commit", "closing"}
               \/ dbheld[x] \/ committed[Obj(x)] > 0)
            => lines[Obj(x)] = keys[FolderOf(Obj(x))])
    /\ [](\A o \in LangObjs : Started(o) =>
            /\ keys[FolderOf(o)] = NRows
            /\ pc[Cur(Folder(FolderOf(o)))] \notin {"none", "new", "read_keys"})
    /\ [][\A f \in Folders : (\E c \in Children(f) : Started(c)) => keys'[f] = keys[f]]_vars

\* C28 witness: a task whose file has one line more than there are keys has
\* failed and holds nothing, and the file of another task is committed
C28_Witness ==
    \E x, y \in Handles :
        /\ lines[Obj(x)] = NRows + 1 /\ keys[FolderOf(Obj(x))] = NRows
        /\ done[x] = "raised" /\ _stack[Obj(x)] = 0 /\ committed[Obj(x)] = 0
        /\ committed[Obj(y)] = NRows

\* the positions at which the main task only unwinds: the connection is
\* being closed, or the drain runs
Unwinding == {"rv_closing", "rv_failing", "ps_closing", "ps_failing", "pe_closing", "pe_failing",
              "sg_closing", "sg_failing", "sg_shutdown", "cleanup_wait", "exited"}

\* C29: in the loop of the analysis no completion request and no batch pick
\* starts while the shutdown event is set; once it is set, the operation in
\* flight is the last one (after it the main task only closes its connection
\* and ends); for a pair the context is picked, then the completion
\* requested, then the row stored; a stored row holds the response received
\* for its own pair.
C29_AnalysisStopsOnShutdown ==
    /\ [][(mainpc' # mainpc /\ mainpc' \in {"complete", "rv_connecting"}) => ~shutdown_requested]_vars
    /\ [][(shutdown_requested /\ mainpc' # mainpc) => mainpc' \in Unwinding]_vars
    /\ [](mainpc = "complete" => extra = string_pairs[pair])
    /\ [](mainpc \in {"sg_connecting", "sg_insert", "sg_commit"} =>
            (extra = string_pairs[pair] /\ response = string_pairs[pair]))
    /\ [](\A r \in stored : r.response = r.pair)

====
